---- MODULE Spec2Model ----
(***************************************************************************)
(* A model of the contacts API: user accounts, JWT access / refresh /      *)
(* password-reset tokens, the Redis user cache, avatar and role changes,   *)
(* and the per-user contact book.                                          *)
(*                                                                         *)
(* The database tables, the cache and the set of tokens handed out to      *)
(* clients are the state.  One action is one HTTP request, run to          *)
(* completion; `resp` holds the request that was just served and its       *)
(* response.  Time is the wall clock in seconds.                           *)
(***************************************************************************)
EXTENDS Integers, Sequences, FiniteSets, TLC

VARIABLES
    clock,       \* wall clock, seconds
    users,       \* the users table: a sequence of rows, row i has id i
    cache,       \* Redis: a function from the keys present to [value, expires_at]
    issued,      \* every token handed out (login/refresh responses, reset log lines)
    resp,        \* the last request and its response
    lastLogin,   \* history: username -> refresh token returned by its latest login
    prevLogins,  \* history: username -> refresh tokens returned by its earlier logins
    resetInfo,   \* history: username -> the latest confirmed password reset
    steps,       \* number of steps so far that changed the clock, a table, the cache
                 \* or the tokens handed out
    contacts,    \* the contacts table: a set of rows
    contact_seq, \* the last id the contacts table has given out
    inflight     \* registrations being served concurrently: where each one stands

vars == <<clock, users, cache, issued, resp, lastLogin, prevLogins, resetInfo,
          steps, contacts, contact_seq, inflight>>

----------------------------------------------------------------------------
(* Bounds of the model *)

MaxSteps == 4

(* Program constants *)

JWT_EXPIRATION_SECONDS == 3600
JWT_REFRESH_EXPIRATION_SECONDS == 3600 * 24 * 7
REDIS_USER_CACHE_EXPIRE == 3600
RESET_TOKEN_HOURS == 1

(* Input values *)

Usernames == {"admin", "deadpool"}
RegUsernames == Usernames \cup {"ironman"}
Emails == {"admin@example.com", "deadpool@example.com"}
Passwords == {"adminpass", "newpass1"}
Roles == {"user", "admin"}
ContentTypes == {"image/jpeg", "text/plain"}
Salts == {"a1b2c3d4e5f60718"}
Jumps == {1, JWT_EXPIRATION_SECONDS + 1, JWT_REFRESH_EXPIRATION_SECONDS + 1}

None == "None"
NoToken == [none |-> TRUE]

----------------------------------------------------------------------------
(* Password hashing *)

get_password_hash(password) == <<"bcrypt", "salt", password>>

\* mutant: any password verifies
verify_password_always(plain_password, hashed_password) == TRUE

verify_password(plain_password, hashed_password) ==
    hashed_password = <<"bcrypt", hashed_password[2], plain_password>>

----------------------------------------------------------------------------
(* JSON Web Tokens.  A token is its claims and its signature; only the      *)
(* server can produce the signature "HS256".                                *)

jwt_encode(claims) == [claims |-> claims, sig |-> "HS256"]

Tamper(token) == [token EXCEPT !.sig = "tampered"]

InvalidToken == [claims |-> [sub |-> None, token_type |-> None, iat |-> 0, exp |-> 0,
                             email |-> None, salt |-> None],
                 sig |-> "malformed"]

\* mutant: the expiry is not verified
jwt_decode_no_exp(token, now) ==
    IF token = NoToken \/ token.sig # "HS256" THEN "JWTError" ELSE "ok"

\* jwt.decode: the claims, or "JWTError" (bad structure, bad signature, exp in the past)
jwt_decode(token, now) ==
    IF token = NoToken \/ token.sig # "HS256" THEN "JWTError"
    ELSE IF token.claims.exp < now THEN "JWTError"
    ELSE "ok"

create_token(sub, expires_delta, token_type, now) ==
    jwt_encode([sub |-> sub, token_type |-> token_type, iat |-> now,
                exp |-> now + expires_delta, email |-> None, salt |-> None])

create_access_token(sub, now) ==
    create_token(sub, JWT_EXPIRATION_SECONDS, "access", now)

create_refresh_token(sub, now) ==
    create_token(sub, JWT_REFRESH_EXPIRATION_SECONDS, "refresh", now)

create_password_reset_token(email, salt, now) ==
    jwt_encode([sub |-> None, token_type |-> "password_reset", iat |-> 0,
                exp |-> now + RESET_TOKEN_HOURS * 3600, email |-> email, salt |-> salt])

\* mutant: the expiry is not verified
verify_password_reset_token_no_exp(token, now) ==
    IF token = NoToken \/ token.sig # "HS256" THEN None
    ELSE IF token.claims.token_type # "password_reset" \/ token.claims.email = None
         THEN None
    ELSE "payload"

\* the claims of a reset token, or None
verify_password_reset_token(token, now) ==
    IF jwt_decode(token, now) = "JWTError" THEN None
    ELSE IF token.claims.token_type # "password_reset" \/ token.claims.email = None
         THEN None
    ELSE "payload"

\* what a client can put in a request: a token it was given, one it altered, junk,
\* or nothing at all
Presentable == issued \cup {Tamper(t) : t \in issued} \cup {InvalidToken, NoToken}

\* the same without the altered copies
Bearers == issued \cup {InvalidToken, NoToken}

----------------------------------------------------------------------------
(* The users table *)

RowIds(table) == 1..Len(table)

\* row ids matching; the repository's scalar_one_or_none() is 0 for none
get_user_by_username(table, username) ==
    LET m == {i \in RowIds(table) : table[i].username = username}
    IN IF m = {} THEN 0 ELSE CHOOSE i \in m : TRUE

get_user_by_email(table, email) ==
    LET m == {i \in RowIds(table) : table[i].email = email}
    IN IF m = {} THEN 0 ELSE CHOOSE i \in m : TRUE

get_user_by_id(table, user_id) ==
    IF user_id \in RowIds(table) THEN user_id ELSE 0

\* mutant: the stored token is not part of the filter
get_user_by_username_and_token_no_token(table, username, token) ==
    get_user_by_username(table, username)

get_user_by_username_and_token(table, username, token) ==
    LET m == {i \in RowIds(table) :
                 table[i].username = username /\ table[i].refresh_token = token}
    IN IF m = {} THEN 0 ELSE CHOOSE i \in m : TRUE

Gravatar(email) == <<"gravatar", email>>

\* mutant: the insert is committed whatever the table holds
create_user_no_unique(table, username, email, hashed_password, now) ==
    Append(table, [id |-> Len(table) + 1, username |-> username, email |-> email,
                   hashed_password |-> hashed_password, created_at |-> now,
                   avatar |-> Gravatar(email), refresh_token |-> NoToken,
                   role |-> "user"])

\* the table after the insert; the commit fails (IntegrityError, nothing inserted)
\* when the username or the email is taken: both columns are unique
create_user(table, username, email, hashed_password, now) ==
    IF \E i \in RowIds(table) : table[i].username = username \/ table[i].email = email
    THEN table
    ELSE Append(table, [id |-> Len(table) + 1, username |-> username, email |-> email,
                        hashed_password |-> hashed_password, created_at |-> now,
                        avatar |-> Gravatar(email), refresh_token |-> NoToken,
                        role |-> "user"])

save_refresh_token(table, username, refresh_token) ==
    LET i == get_user_by_username(table, username)
    IN IF i = 0 THEN table ELSE [table EXCEPT ![i].refresh_token = refresh_token]

update_avatar_url(table, email, url) ==
    LET i == get_user_by_email(table, email)
    IN IF i = 0 THEN table ELSE [table EXCEPT ![i].avatar = url]

update_password(table, email, hashed_password) ==
    LET i == get_user_by_email(table, email)
    IN IF i = 0 THEN table ELSE [table EXCEPT ![i].hashed_password = hashed_password]

change_user_role(table, user_id, role) ==
    LET i == get_user_by_id(table, user_id)
    IN IF i = 0 THEN table ELSE [table EXCEPT ![i].role = role]

is_admin(user) == user.role = "admin"

----------------------------------------------------------------------------
(* The cache *)

CacheKey(username) == <<"user:", username>>

redis_get(store, key, now) ==
    IF key \in DOMAIN store /\ now < store[key].expires_at THEN store[key].value
    ELSE [miss |-> TRUE]

\* mutant: the entry is stored without a time to live
redis_set_no_expire(store, key, value, expire, now) ==
    [k \in DOMAIN store \cup {key} |->
        IF k = key
        THEN [value |-> value, expires_at |-> now + 2 * JWT_REFRESH_EXPIRATION_SECONDS]
        ELSE store[k]]

redis_set(store, key, value, expire, now) ==
    [k \in DOMAIN store \cup {key} |->
        IF k = key THEN [value |-> value, expires_at |-> now + expire] ELSE store[k]]

redis_delete(store, key) == [k \in DOMAIN store \ {key} |-> store[k]]

\* Redis drops the keys whose time to live has run out
redis_expire(store, now) ==
    [k \in {j \in DOMAIN store : now < store[j].expires_at} |-> store[k]]

----------------------------------------------------------------------------
(* Current-user resolution *)

UserFromCache(d) ==
    [id |-> d.id, username |-> d.username, email |-> d.email,
     hashed_password |-> d.hashed_password, created_at |-> d.created_at,
     avatar |-> d.avatar, refresh_token |-> d.refresh_token, role |-> None]

NoUser == [id |-> 0, username |-> None, email |-> None,
           hashed_password |-> <<None, None, None>>, created_at |-> 0,
           avatar |-> <<None, None>>, refresh_token |-> NoToken, role |-> None]

\* [status, user, cached]: 200 and the user, or the error status
\* mutant: only tokens of type access are accepted
get_current_user_access_only(token) ==
    IF token = NoToken \/ jwt_decode(token, clock) = "JWTError"
    THEN [status |-> 401, user |-> NoUser, cached |-> FALSE]
    ELSE IF token.claims.sub = None
    THEN [status |-> 500, user |-> NoUser, cached |-> FALSE]
    ELSE IF token.claims.token_type # "access"
    THEN [status |-> 401, user |-> NoUser, cached |-> FALSE]
    ELSE LET cached_user == redis_get(cache, CacheKey(token.claims.sub), clock)
             i == get_user_by_username(users, token.claims.sub)
         IN IF cached_user # [miss |-> TRUE]
            THEN [status |-> 200, user |-> UserFromCache(cached_user), cached |-> TRUE]
            ELSE IF i = 0
            THEN [status |-> 401, user |-> NoUser, cached |-> FALSE]
            ELSE [status |-> 200, user |-> users[i], cached |-> FALSE]

get_current_user(token) ==
    IF token = NoToken \/ jwt_decode(token, clock) = "JWTError"
    THEN [status |-> 401, user |-> NoUser, cached |-> FALSE]
    ELSE IF token.claims.sub = None
    THEN [status |-> 500, user |-> NoUser, cached |-> FALSE]
    ELSE LET cached_user == redis_get(cache, CacheKey(token.claims.sub), clock)
             i == get_user_by_username(users, token.claims.sub)
         IN IF cached_user # [miss |-> TRUE]
            THEN [status |-> 200, user |-> UserFromCache(cached_user), cached |-> TRUE]
            ELSE IF i = 0
            THEN [status |-> 401, user |-> NoUser, cached |-> FALSE]
            ELSE [status |-> 200, user |-> users[i], cached |-> FALSE]

get_current_admin(token) ==
    LET cur == get_current_user(token)
    IN IF cur.status = 200 /\ ~is_admin(cur.user)
       THEN [status |-> 403, user |-> NoUser, cached |-> cur.cached]
       ELSE cur

----------------------------------------------------------------------------
(* Initial state: an empty cache and the administrator's row in the table *)

SeedUsers ==
    <<[id |-> 1, username |-> "admin", email |-> "admin@example.com",
       hashed_password |-> get_password_hash("adminpass"), created_at |-> 0,
       avatar |-> <<"seed", "admin@example.com">>, refresh_token |-> NoToken,
       role |-> "admin"]>>

Idle == [op |-> "idle", status |-> 0]

NoReset ==
    [done |-> FALSE, old |-> None, new |-> None, had_entry |-> FALSE, stopped |-> FALSE,
     token |-> NoToken]

\* the registrations that may overlap, and one that has not started
Procs == {"r1", "r2"}

NoRequest == [pc |-> "idle", username |-> None, email |-> None, password |-> None,
              status |-> 0]

Init ==
    /\ clock = 0
    /\ users = SeedUsers
    /\ cache = << >>
    /\ issued = {}
    /\ resp = Idle
    /\ lastLogin = [u \in RegUsernames |-> NoToken]
    /\ prevLogins = [u \in RegUsernames |-> {}]
    /\ resetInfo = [u \in RegUsernames |-> NoReset]
    /\ steps = 0
    /\ contacts = {}
    /\ contact_seq = 0
    /\ inflight = [p \in Procs |-> NoRequest]

----------------------------------------------------------------------------
(* POST /auth/login, and the login that ends a registration *)

UserDict(row, refresh_token) ==
    [id |-> row.id, username |-> row.username, email |-> row.email,
     hashed_password |-> row.hashed_password, created_at |-> row.created_at,
     avatar |-> row.avatar, refresh_token |-> refresh_token]

\* mutant: a wrong password ends the session of the named user
login_failure_logs_out(table, store, username, password, now) ==
    LET i == get_user_by_username(table, username)
    IN IF i = 0
       THEN [status |-> 401, detail |-> "Invalid username or password",
             users |-> table, cache |-> store,
             access_token |-> NoToken, refresh_token |-> NoToken]
       ELSE IF ~verify_password(password, table[i].hashed_password)
       THEN [status |-> 401, detail |-> "Invalid username or password",
             users |-> save_refresh_token(table, username, NoToken),
             cache |-> redis_delete(store, CacheKey(username)),
             access_token |-> NoToken, refresh_token |-> NoToken]
       ELSE LET access_token == create_access_token(table[i].username, now)
                refresh_token == create_refresh_token(table[i].username, now)
            IN [status |-> 200, detail |-> None,
                users |-> save_refresh_token(table, table[i].username, refresh_token),
                cache |-> redis_set(store, CacheKey(table[i].username),
                                    UserDict(table[i], refresh_token),
                                    REDIS_USER_CACHE_EXPIRE, now),
                access_token |-> access_token, refresh_token |-> refresh_token]

\* the response and the tables after login(body) against `table` and `store`
login(table, store, username, password, now) ==
    LET i == get_user_by_username(table, username)
    IN IF i = 0 \/ ~verify_password(password, table[i].hashed_password)
       THEN [status |-> 401, detail |-> "Invalid username or password",
             users |-> table, cache |-> store,
             access_token |-> NoToken, refresh_token |-> NoToken]
       ELSE LET access_token == create_access_token(table[i].username, now)
                refresh_token == create_refresh_token(table[i].username, now)
            IN [status |-> 200, detail |-> None,
                users |-> save_refresh_token(table, table[i].username, refresh_token),
                cache |-> redis_set(store, CacheKey(table[i].username),
                                    UserDict(table[i], refresh_token),
                                    REDIS_USER_CACHE_EXPIRE, now),
                access_token |-> access_token, refresh_token |-> refresh_token]

\* history of the refresh tokens the logins of `username` have returned
RecordLogin(r, username) ==
    IF r.status = 200
    THEN /\ issued' = issued \cup {r.access_token, r.refresh_token}
         /\ lastLogin' = [lastLogin EXCEPT ![username] = r.refresh_token]
         /\ prevLogins' = [prevLogins EXCEPT ![username] =
                              IF lastLogin[username] = NoToken THEN @
                              ELSE @ \cup {lastLogin[username]}]
    ELSE UNCHANGED <<issued, lastLogin, prevLogins>>

Login(username, password) ==
    LET r == login(users, cache, username, password, clock)
    IN /\ users' = r.users
       /\ cache' = r.cache
       /\ RecordLogin(r, username)
       /\ resp' = [op |-> "login", status |-> r.status, detail |-> r.detail,
                   username |-> username, password |-> password,
                   access_token |-> r.access_token, refresh_token |-> r.refresh_token]
       /\ UNCHANGED <<clock, resetInfo, contacts, contact_seq, inflight>>

(* POST /auth/register *)

\* mutant: only the email is looked up before the insert
signup_email_check_only(table, store, username, email, password, now) ==
    IF get_user_by_email(table, email) # 0
    THEN [status |-> 409, users |-> table, cache |-> store,
          access_token |-> NoToken, refresh_token |-> NoToken]
    ELSE LET created == create_user(table, username, email,
                                    get_password_hash(password), now)
             r == login(created, store, username, password, now)
         IN IF created = table
            THEN [status |-> 500, users |-> table, cache |-> store,
                  access_token |-> NoToken, refresh_token |-> NoToken]
            ELSE [r EXCEPT !.status = IF @ = 200 THEN 201 ELSE @]

signup(table, store, username, email, password, now) ==
    IF get_user_by_email(table, email) # 0 \/ get_user_by_username(table, username) # 0
    THEN [status |-> 409, users |-> table, cache |-> store,
          access_token |-> NoToken, refresh_token |-> NoToken]
    ELSE LET created == create_user(table, username, email,
                                    get_password_hash(password), now)
             r == login(created, store, username, password, now)
         IN IF created = table
            THEN [status |-> 500, users |-> table, cache |-> store,
                  access_token |-> NoToken, refresh_token |-> NoToken]
            ELSE [r EXCEPT !.status = IF @ = 200 THEN 201 ELSE @]

Signup(username, email, password) ==
    LET r == signup(users, cache, username, email, password, clock)
    IN /\ users' = r.users
       /\ cache' = r.cache
       /\ RecordLogin([r EXCEPT !.status = IF @ = 201 THEN 200 ELSE @], username)
       /\ resp' = [op |-> "register", status |-> r.status, username |-> username,
                   email |-> email, access_token |-> r.access_token,
                   refresh_token |-> r.refresh_token]
       /\ UNCHANGED <<clock, resetInfo, contacts, contact_seq, inflight>>

(* POST /auth/refresh-token *)

\* mutant: the token is decoded and typed, never matched against the table
verify_refresh_token_no_match(table, refresh_token, now) ==
    IF jwt_decode(refresh_token, now) = "JWTError" THEN 0
    ELSE IF refresh_token.claims.sub = None \/ refresh_token.claims.token_type # "refresh"
    THEN 0
    ELSE get_user_by_username(table, refresh_token.claims.sub)

\* the row id of the token's user, or 0
verify_refresh_token(table, refresh_token, now) ==
    IF jwt_decode(refresh_token, now) = "JWTError" THEN 0
    ELSE IF refresh_token.claims.sub = None \/ refresh_token.claims.token_type # "refresh"
    THEN 0
    ELSE get_user_by_username_and_token(table, refresh_token.claims.sub, refresh_token)

\* mutant: a success hands out a fresh refresh token
new_token_rotating(table, refresh_token, now) ==
    LET i == verify_refresh_token(table, refresh_token, now)
    IN IF refresh_token = NoToken
       THEN [status |-> 422, access_token |-> NoToken, refresh_token |-> NoToken]
       ELSE IF i = 0
       THEN [status |-> 401, access_token |-> NoToken, refresh_token |-> NoToken]
       ELSE [status |-> 200, access_token |-> create_access_token(table[i].username, now),
             refresh_token |-> create_refresh_token(table[i].username, now)]

\* a body without refresh_token does not pass TokenRefreshRequest
new_token(table, refresh_token, now) ==
    LET i == verify_refresh_token(table, refresh_token, now)
    IN IF refresh_token = NoToken
       THEN [status |-> 422, access_token |-> NoToken, refresh_token |-> NoToken]
       ELSE IF i = 0
       THEN [status |-> 401, access_token |-> NoToken, refresh_token |-> NoToken]
       ELSE [status |-> 200, access_token |-> create_access_token(table[i].username, now),
             refresh_token |-> refresh_token]

NewToken(token) ==
    LET r == new_token(users, token, clock)
    IN /\ issued' = IF r.status = 200 THEN issued \cup {r.access_token} ELSE issued
       /\ resp' = [op |-> "refresh-token", status |-> r.status, token |-> token,
                   access_token |-> r.access_token, refresh_token |-> r.refresh_token]
       /\ UNCHANGED <<clock, users, cache, lastLogin, prevLogins, resetInfo,
                      contacts, contact_seq, inflight>>

(* POST /auth/logout *)

\* mutant: the cache entry is rewritten without the token instead of deleted
logout_updates_cache(table, store, cur) ==
    IF cur.status # 200
    THEN [status |-> cur.status, users |-> table, cache |-> store]
    ELSE [status |-> 200,
          users |-> save_refresh_token(table, cur.user.username, NoToken),
          cache |-> IF CacheKey(cur.user.username) \in DOMAIN store
                    THEN [store EXCEPT
                            ![CacheKey(cur.user.username)].value.refresh_token = NoToken]
                    ELSE store]

\* mutant: the cache entry is left in place
logout_keep_cache(table, store, cur) ==
    IF cur.status # 200
    THEN [status |-> cur.status, users |-> table, cache |-> store]
    ELSE [status |-> 200,
          users |-> save_refresh_token(table, cur.user.username, NoToken),
          cache |-> store]

logout(table, store, cur) ==
    IF cur.status # 200
    THEN [status |-> cur.status, users |-> table, cache |-> store]
    ELSE [status |-> 200,
          users |-> save_refresh_token(table, cur.user.username, NoToken),
          cache |-> redis_delete(store, CacheKey(cur.user.username))]

Logout(token) ==
    LET cur == get_current_user(token)
        r == logout(users, cache, cur)
    IN /\ users' = r.users
       /\ cache' = r.cache
       /\ resp' = [op |-> "logout", status |-> r.status, token |-> token,
                   username |-> cur.user.username, cached |-> cur.cached]
       /\ UNCHANGED <<clock, issued, lastLogin, prevLogins, resetInfo,
                      contacts, contact_seq, inflight>>

(* POST /auth/reset-password/request *)

ResetMessage ==
    "If your email exists in our system, you will receive a password reset link"

\* mutant: an unknown email is answered 404
request_password_reset_404(table, email, salt, now) ==
    IF get_user_by_email(table, email) # 0
    THEN [status |-> 202, message |-> ResetMessage,
          logged |-> {create_password_reset_token(email, salt, now)}]
    ELSE [status |-> 404, message |-> "User not found", logged |-> {}]

\* the response, and the token written to the log when the email is known
request_password_reset(table, email, salt, now) ==
    IF get_user_by_email(table, email) # 0
    THEN [status |-> 202, message |-> ResetMessage,
          logged |-> {create_password_reset_token(email, salt, now)}]
    ELSE [status |-> 202, message |-> ResetMessage, logged |-> {}]

RequestPasswordReset(email, salt) ==
    LET r == request_password_reset(users, email, salt, clock)
    IN
    /\ issued' = issued \cup r.logged
    /\ resp' = [op |-> "reset-request", status |-> r.status, email |-> email,
                message |-> r.message]
    /\ UNCHANGED <<clock, users, cache, lastLogin, prevLogins, resetInfo,
                   contacts, contact_seq, inflight>>

(* POST /auth/reset-password/confirm *)

\* mutant: the reset also clears the stored refresh token
confirm_password_reset_logs_out(table, store, token, password, now) ==
    IF verify_password_reset_token(token, now) = None
    THEN [status |-> 400, users |-> table, cache |-> store, username |-> None]
    ELSE LET i == get_user_by_email(table, token.claims.email)
         IN IF i = 0
            THEN [status |-> 404, users |-> table, cache |-> store, username |-> None]
            ELSE [status |-> 200,
                  users |-> save_refresh_token(
                               update_password(table, token.claims.email,
                                               get_password_hash(password)),
                               table[i].username, NoToken),
                  cache |-> redis_delete(store, CacheKey(table[i].username)),
                  username |-> table[i].username]

\* mutant: the password is rewritten and the cache entry is left in place
confirm_password_reset_keep_cache(table, store, token, password, now) ==
    IF verify_password_reset_token(token, now) = None
    THEN [status |-> 400, users |-> table, cache |-> store, username |-> None]
    ELSE LET i == get_user_by_email(table, token.claims.email)
         IN IF i = 0
            THEN [status |-> 404, users |-> table, cache |-> store, username |-> None]
            ELSE [status |-> 200,
                  users |-> update_password(table, token.claims.email,
                                            get_password_hash(password)),
                  cache |-> store,
                  username |-> table[i].username]

confirm_password_reset(table, store, token, password, now) ==
    IF verify_password_reset_token(token, now) = None
    THEN [status |-> 400, users |-> table, cache |-> store, username |-> None]
    ELSE LET i == get_user_by_email(table, token.claims.email)
         IN IF i = 0
            THEN [status |-> 404, users |-> table, cache |-> store, username |-> None]
            ELSE [status |-> 200,
                  users |-> update_password(table, token.claims.email,
                                            get_password_hash(password)),
                  cache |-> redis_delete(store, CacheKey(table[i].username)),
                  username |-> table[i].username]

ConfirmPasswordReset(token, password) ==
    LET r == confirm_password_reset(users, cache, token, password, clock)
        i == get_user_by_username(users, r.username)
    IN /\ users' = r.users
       /\ cache' = r.cache
       /\ resetInfo' = IF r.status = 200
                       THEN [resetInfo EXCEPT ![r.username] =
                               [done |-> TRUE, old |-> users[i].hashed_password[3],
                                new |-> password,
                                had_entry |-> CacheKey(r.username) \in DOMAIN cache,
                                stopped |-> FALSE, token |-> token]]
                       ELSE resetInfo
       /\ resp' = [op |-> "reset-confirm", status |-> r.status, token |-> token,
                   password |-> password, username |-> r.username]
       /\ UNCHANGED <<clock, issued, lastLogin, prevLogins,
                      contacts, contact_seq, inflight>>

----------------------------------------------------------------------------
(* GET /users/me *)

\* UserResponse declares role: str, so a user without a role cannot be serialised
UserResponse(user) == IF user.role = None THEN 500 ELSE 200

ReadUserMe(token) ==
    LET cur == get_current_user(token)
    IN /\ resp' = [op |-> "me",
                   status |-> IF cur.status = 200 THEN UserResponse(cur.user)
                              ELSE cur.status,
                   token |-> token, user |-> cur.user, cached |-> cur.cached]
       /\ UNCHANGED <<clock, users, cache, issued, lastLogin, prevLogins,
                      resetInfo, contacts, contact_seq, inflight>>

(* PATCH /users/avatar *)

AllowedContentTypes == {"image/jpeg", "image/png", "image/gif"}

\* where a request that passed validation fails, if it does
Faults == {"none", "upload", "commit", "cache"}

\* the secure_url the image host answers for public_id avatar_<id>
upload_image(user_id) == <<"cloudinary", user_id>>

\* mutant: the administrator check is left out
update_avatar_no_admin_check(table, store, cur, content_type, fault) ==
    IF cur.status # 200
    THEN [status |-> cur.status, users |-> table, cache |-> store, uploaded |-> FALSE]
    ELSE IF content_type \notin AllowedContentTypes
    THEN [status |-> 400, users |-> table, cache |-> store, uploaded |-> FALSE]
    ELSE IF fault = "upload"
    THEN [status |-> 500, users |-> table, cache |-> store, uploaded |-> FALSE]
    ELSE IF fault = "commit"
    THEN [status |-> 500, users |-> table, cache |-> store, uploaded |-> TRUE]
    ELSE IF fault = "cache"
    THEN [status |-> 500,
          users |-> update_avatar_url(table, cur.user.email, upload_image(cur.user.id)),
          cache |-> store, uploaded |-> TRUE]
    ELSE [status |-> 200,
          users |-> update_avatar_url(table, cur.user.email, upload_image(cur.user.id)),
          cache |-> redis_delete(store, CacheKey(cur.user.username)),
          uploaded |-> TRUE]

\* mutant: the row is written before the upload is attempted
update_avatar_write_first(table, store, cur, content_type, fault) ==
    IF cur.status # 200
    THEN [status |-> cur.status, users |-> table, cache |-> store, uploaded |-> FALSE]
    ELSE IF ~is_admin(cur.user)
    THEN [status |-> 403, users |-> table, cache |-> store, uploaded |-> FALSE]
    ELSE IF content_type \notin AllowedContentTypes
    THEN [status |-> 400, users |-> table, cache |-> store, uploaded |-> FALSE]
    ELSE IF fault = "commit"
    THEN [status |-> 500, users |-> table, cache |-> store, uploaded |-> FALSE]
    ELSE IF fault = "upload"
    THEN [status |-> 500,
          users |-> update_avatar_url(table, cur.user.email, upload_image(cur.user.id)),
          cache |-> store, uploaded |-> FALSE]
    ELSE IF fault = "cache"
    THEN [status |-> 500,
          users |-> update_avatar_url(table, cur.user.email, upload_image(cur.user.id)),
          cache |-> store, uploaded |-> TRUE]
    ELSE [status |-> 200,
          users |-> update_avatar_url(table, cur.user.email, upload_image(cur.user.id)),
          cache |-> redis_delete(store, CacheKey(cur.user.username)),
          uploaded |-> TRUE]

\* the steps inside the try block fail as `fault` says: the upload to the image
\* host, the commit of the new url, or the deletion of the cache key; each failure
\* is re-raised as 500 and nothing done before it is undone
update_avatar(table, store, cur, content_type, fault) ==
    IF cur.status # 200
    THEN [status |-> cur.status, users |-> table, cache |-> store, uploaded |-> FALSE]
    ELSE IF ~is_admin(cur.user)
    THEN [status |-> 403, users |-> table, cache |-> store, uploaded |-> FALSE]
    ELSE IF content_type \notin AllowedContentTypes
    THEN [status |-> 400, users |-> table, cache |-> store, uploaded |-> FALSE]
    ELSE IF fault = "upload"
    THEN [status |-> 500, users |-> table, cache |-> store, uploaded |-> FALSE]
    ELSE IF fault = "commit"
    THEN [status |-> 500, users |-> table, cache |-> store, uploaded |-> TRUE]
    ELSE IF fault = "cache"
    THEN [status |-> 500,
          users |-> update_avatar_url(table, cur.user.email, upload_image(cur.user.id)),
          cache |-> store, uploaded |-> TRUE]
    ELSE [status |-> 200,
          users |-> update_avatar_url(table, cur.user.email, upload_image(cur.user.id)),
          cache |-> redis_delete(store, CacheKey(cur.user.username)),
          uploaded |-> TRUE]

UpdateAvatar(token, content_type, fault) ==
    LET cur == get_current_user(token)
        r == update_avatar(users, cache, cur, content_type, fault)
    IN /\ users' = r.users
       /\ cache' = r.cache
       /\ resp' = [op |-> "avatar", status |-> r.status, token |-> token,
                   username |-> cur.user.username, cached |-> cur.cached,
                   content_type |-> content_type, fault |-> fault,
                   uploaded |-> r.uploaded, avatar |-> upload_image(cur.user.id)]
       /\ UNCHANGED <<clock, issued, lastLogin, prevLogins, resetInfo,
                      contacts, contact_seq, inflight>>

(* PUT /users/{user_id}/role *)

\* mutant: the role is rewritten and the cache entry is left in place
update_user_role_keep_cache(table, store, cur, user_id, role) ==
    IF cur.status # 200
    THEN [status |-> cur.status, users |-> table, cache |-> store, username |-> None]
    ELSE LET i == get_user_by_id(table, user_id)
         IN IF i = 0
            THEN [status |-> 404, users |-> table, cache |-> store, username |-> None]
            ELSE [status |-> 200, users |-> change_user_role(table, user_id, role),
                  cache |-> store, username |-> table[i].username]

update_user_role(table, store, cur, user_id, role) ==
    IF cur.status # 200
    THEN [status |-> cur.status, users |-> table, cache |-> store, username |-> None]
    ELSE LET i == get_user_by_id(table, user_id)
         IN IF i = 0
            THEN [status |-> 404, users |-> table, cache |-> store, username |-> None]
            ELSE [status |-> 200, users |-> change_user_role(table, user_id, role),
                  cache |-> redis_delete(store, CacheKey(table[i].username)),
                  username |-> table[i].username]

UpdateUserRole(token, user_id, role) ==
    LET cur == get_current_admin(token)
        r == update_user_role(users, cache, cur, user_id, role)
    IN /\ users' = r.users
       /\ cache' = r.cache
       /\ resp' = [op |-> "role", status |-> r.status, token |-> token,
                   user_id |-> user_id, role |-> role, username |-> r.username,
                   had_entry |-> CacheKey(r.username) \in DOMAIN cache]
       /\ UNCHANGED <<clock, issued, lastLogin, prevLogins, resetInfo,
                      contacts, contact_seq, inflight>>

----------------------------------------------------------------------------
(* Time passes; Redis drops what has expired *)

Tick(d) ==
    /\ resp = Idle
    /\ steps < MaxSteps
    /\ steps' = steps + 1
    /\ clock' = clock + d
    /\ cache' = redis_expire(cache, clock + d)
    /\ UNCHANGED <<users, issued, resp, lastLogin, prevLogins, resetInfo,
                   contacts, contact_seq, inflight>>

\* the client takes the response; requests are served one at a time
Deliver ==
    /\ resp # Idle
    /\ resp' = Idle
    /\ UNCHANGED <<clock, users, cache, issued, lastLogin, prevLogins, resetInfo, steps,
                   contacts, contact_seq, inflight>>

UserIds == 1..Cardinality(Emails) + 1

\* a request is counted when it changes what is stored or handed out
Counted(A) ==
    /\ A
    /\ steps' = IF <<users', cache', issued', lastLogin', prevLogins', resetInfo',
                     contacts', contact_seq'>>
                   = <<users, cache, issued, lastLogin, prevLogins, resetInfo,
                       contacts, contact_seq>>
                THEN steps ELSE steps + 1
    /\ steps' <= MaxSteps

Request(A) == resp = Idle /\ Counted(A)

Next ==
    \/ Deliver
    \/ \E d \in Jumps : Tick(d)
    \/ \E u \in Usernames, e \in Emails, p \in Passwords : Request(Signup(u, e, p))
    \/ \E u \in Usernames, p \in Passwords : Request(Login(u, p))
    \/ \E t \in Presentable : Request(NewToken(t))
    \/ \E t \in Presentable : Request(Logout(t))
    \/ \E e \in Emails, s \in Salts : Request(RequestPasswordReset(e, s))
    \/ \E t \in Presentable, p \in Passwords : Request(ConfirmPasswordReset(t, p))
    \/ \E t \in Presentable : Request(ReadUserMe(t))
    \/ \E t \in Bearers, c \in ContentTypes, f \in Faults : Request(UpdateAvatar(t, c, f))
    \/ \E t \in Bearers, i \in UserIds, r \in Roles : Request(UpdateUserRole(t, i, r))

Spec == Init /\ [][Next]_vars

----------------------------------------------------------------------------
(* POST /auth/register served concurrently: every await of the handler is a  *)
(* point where another request can run.  The steps of one registration are   *)
(* the email lookup, the username lookup, the insert and the login.          *)

\* the bodies of the overlapping registrations: the same body twice, the same
\* email under two usernames, the same username under two emails
Registrations ==
    {[username |-> "deadpool", email |-> "deadpool@example.com", password |-> "newpass1"],
     [username |-> "ironman", email |-> "deadpool@example.com", password |-> "newpass1"],
     [username |-> "deadpool", email |-> "ironman@example.com", password |-> "newpass1"]}

InFlight(p, pc, status) == [inflight EXCEPT ![p].pc = pc, ![p].status = status]

SignupCheckEmail(p, username, email, password) ==
    /\ resp = Idle
    /\ inflight[p].pc = "idle"
    /\ inflight' = [inflight EXCEPT ![p] =
                      IF get_user_by_email(users, email) # 0
                      THEN [pc |-> "done", username |-> username, email |-> email,
                            password |-> password, status |-> 409]
                      ELSE [pc |-> "check_username", username |-> username,
                            email |-> email, password |-> password, status |-> 0]]
    /\ UNCHANGED <<clock, users, cache, issued, resp, lastLogin, prevLogins, resetInfo,
                   steps, contacts, contact_seq>>

SignupCheckUsername(p) ==
    /\ resp = Idle
    /\ inflight[p].pc = "check_username"
    /\ inflight' = IF get_user_by_username(users, inflight[p].username) # 0
                   THEN InFlight(p, "done", 409)
                   ELSE InFlight(p, "create_user", 0)
    /\ UNCHANGED <<clock, users, cache, issued, resp, lastLogin, prevLogins, resetInfo,
                   steps, contacts, contact_seq>>

\* the insert; an IntegrityError is not caught and the request ends in 500
SignupCreateUser(p) ==
    LET created == create_user(users, inflight[p].username, inflight[p].email,
                               get_password_hash(inflight[p].password), clock)
    IN /\ resp = Idle
       /\ inflight[p].pc = "create_user"
       /\ users' = created
       /\ inflight' = IF created = users THEN InFlight(p, "done", 500)
                      ELSE InFlight(p, "login", 0)
       /\ UNCHANGED <<clock, cache, issued, resp, lastLogin, prevLogins, resetInfo,
                      contacts, contact_seq>>

SignupLogin(p) ==
    LET r == login(users, cache, inflight[p].username, inflight[p].password, clock)
    IN /\ resp = Idle
       /\ inflight[p].pc = "login"
       /\ users' = r.users
       /\ cache' = r.cache
       /\ RecordLogin(r, inflight[p].username)
       /\ inflight' = InFlight(p, "done", IF r.status = 200 THEN 201 ELSE r.status)
       /\ UNCHANGED <<clock, resp, resetInfo, contacts, contact_seq>>

NextConc ==
    \/ Deliver
    \/ \E p \in Procs, b \in Registrations :
          SignupCheckEmail(p, b.username, b.email, b.password)
    \/ \E p \in Procs : SignupCheckUsername(p)
    \/ \E p \in Procs : Counted(SignupCreateUser(p))
    \/ \E p \in Procs : Counted(SignupLogin(p))
    \/ \E u \in Usernames, w \in Passwords : Request(Login(u, w))
    \/ \E t \in Bearers : Request(Logout(t))
    \/ \E e \in Emails, s \in Salts : Request(RequestPasswordReset(e, s))
    \/ \E t \in Bearers, w \in Passwords : Request(ConfirmPasswordReset(t, w))
    \/ \E t \in Bearers, c \in ContentTypes, f \in Faults : Request(UpdateAvatar(t, c, f))
    \/ \E t \in Bearers, i \in UserIds, r \in Roles : Request(UpdateUserRole(t, i, r))

SpecConc == Init /\ [][NextConc]_vars

----------------------------------------------------------------------------
(* The contacts table.  Text columns are tuples of characters, dates are    *)
(* day numbers, NULL is NoDate.                                             *)

NoDate == 0 - 1

SECONDS_PER_DAY == 86400

current_date(now) == now \div SECONDS_PER_DAY

NoQuery == << >>

Queries == {NoQuery, <<"a">>, <<"_", "o">>}
Skips == {0, 1}
Limits == {1, 100}
Days == {1, 7}

\* ContactModel: date_of_birth is optional; `unset` holds the fields the client left out
ContactModel(name, date_of_birth) ==
    [first_name |-> name, last_name |-> <<"l", "e", "e">>, phone |-> "555-0100",
     email |-> name \o <<"@", "x">>, date_of_birth |-> date_of_birth,
     unset |-> IF date_of_birth = NoDate THEN {"date_of_birth"} ELSE {}]

\* a body that sets date_of_birth to null explicitly
NullDate(body) == [body EXCEPT !.date_of_birth = NoDate, !.unset = {}]

Bodies ==
    {ContactModel(<<"a", "n", "n">>, 7), ContactModel(<<"b", "o", "b">>, NoDate),
     NullDate(ContactModel(<<"b", "o", "b">>, NoDate))}

NoContact == [id |-> 0, user_id |-> 0, first_name |-> << >>, last_name |-> << >>,
              phone |-> None, email |-> << >>, date_of_birth |-> NoDate]

\* SQL LIKE: % matches any run of characters, _ any one character
RECURSIVE like(_, _)
like(s, pattern) ==
    IF pattern = << >> THEN s = << >>
    ELSE IF Head(pattern) = "%"
    THEN like(s, Tail(pattern)) \/ (s # << >> /\ like(Tail(s), pattern))
    ELSE IF s = << >> THEN FALSE
    ELSE (Head(pattern) = "_" \/ Head(pattern) = Head(s)) /\ like(Tail(s), Tail(pattern))

\* Column.contains(q): LIKE '%' || q || '%'
contains(s, q) == like(s, <<"%">> \o q \o <<"%">>)

\* the rows of a result, in the order of their ids
RECURSIVE OrderById(_)
OrderById(rows) ==
    IF rows = {} THEN << >>
    ELSE LET first == CHOOSE c \in rows : \A d \in rows : c.id <= d.id
         IN <<first>> \o OrderById(rows \ {first})

OffsetLimit(rows, skip, limit) ==
    IF skip >= Len(rows) THEN << >>
    ELSE SubSeq(rows, skip + 1, IF skip + limit < Len(rows) THEN skip + limit
                                 ELSE Len(rows))

\* mutant: the owner is not part of the filter
get_contacts_any_user(table, user_id, skip, limit, q) ==
    LET matching == IF q = NoQuery THEN table
                    ELSE {c \in table : \/ contains(c.first_name, q)
                                        \/ contains(c.last_name, q)
                                        \/ contains(c.email, q)}
    IN OffsetLimit(OrderById(matching), skip, limit)

get_contacts(table, user_id, skip, limit, q) ==
    LET owned == {c \in table : c.user_id = user_id}
        matching == IF q = NoQuery THEN owned
                    ELSE {c \in owned : \/ contains(c.first_name, q)
                                        \/ contains(c.last_name, q)
                                        \/ contains(c.email, q)}
    IN OffsetLimit(OrderById(matching), skip, limit)

\* the row, or NoContact for scalar_one_or_none() = None
get_contact(table, contact_id, user_id) ==
    LET m == {c \in table : c.id = contact_id /\ c.user_id = user_id}
    IN IF m = {} THEN NoContact ELSE CHOOSE c \in m : TRUE

\* the table after the insert; contacts.date_of_birth is declared Mapped[date], a
\* NOT NULL column, so the commit of a contact without one fails (nothing inserted)
create_contact(table, seq, body, user_id) ==
    IF "date_of_birth" \in body.unset \/ body.date_of_birth = NoDate
    THEN table
    ELSE table \cup {[id |-> seq + 1, user_id |-> user_id,
                      first_name |-> body.first_name, last_name |-> body.last_name,
                      phone |-> body.phone, email |-> body.email,
                      date_of_birth |-> body.date_of_birth]}

\* setattr for every field of model_dump(exclude_unset=True)
Updated(contact, body) ==
    [contact EXCEPT !.first_name = body.first_name, !.last_name = body.last_name,
                    !.phone = body.phone, !.email = body.email,
                    !.date_of_birth = IF "date_of_birth" \in body.unset THEN @
                                      ELSE body.date_of_birth]

\* mutant: the row is looked up by its id alone and handed to the caller
update_contact_takes_over(table, contact_id, body, user_id) ==
    LET m == {c \in table : c.id = contact_id}
        contact == IF m = {} THEN NoContact ELSE CHOOSE c \in m : TRUE
        new == [Updated(contact, body) EXCEPT !.user_id = user_id]
    IN IF contact = NoContact
       THEN [contact |-> NoContact, table |-> table, error |-> FALSE]
       ELSE IF Updated(contact, body).date_of_birth = NoDate
       THEN [contact |-> contact, table |-> table, error |-> TRUE]
       ELSE [contact |-> new, table |-> (table \ {contact}) \cup {new}, error |-> FALSE]

\* a null date_of_birth fails the commit (NOT NULL) and the row stays as it was
update_contact(table, contact_id, body, user_id) ==
    LET contact == get_contact(table, contact_id, user_id)
    IN IF contact = NoContact
       THEN [contact |-> NoContact, table |-> table, error |-> FALSE]
       ELSE IF Updated(contact, body).date_of_birth = NoDate
       THEN [contact |-> contact, table |-> table, error |-> TRUE]
       ELSE [contact |-> Updated(contact, body),
             table |-> (table \ {contact}) \cup {Updated(contact, body)},
             error |-> FALSE]

\* mutant: the row is looked up by its id alone
delete_contact_any_user(table, contact_id, user_id) ==
    LET m == {c \in table : c.id = contact_id}
        contact == IF m = {} THEN NoContact ELSE CHOOSE c \in m : TRUE
    IN IF contact = NoContact THEN [contact |-> NoContact, table |-> table]
       ELSE [contact |-> contact, table |-> table \ {contact}]

delete_contact(table, contact_id, user_id) ==
    LET contact == get_contact(table, contact_id, user_id)
    IN IF contact = NoContact THEN [contact |-> NoContact, table |-> table]
       ELSE [contact |-> contact, table |-> table \ {contact}]

\* mutant: the last day of the window is left out
get_birthdays_open_end(table, days, user_id, now) ==
    OrderById({c \in table :
                 /\ c.user_id = user_id
                 /\ c.date_of_birth # NoDate
                 /\ current_date(now) <= c.date_of_birth
                 /\ c.date_of_birth < current_date(now) + days})

get_birthdays(table, days, user_id, now) ==
    OrderById({c \in table :
                 /\ c.user_id = user_id
                 /\ c.date_of_birth # NoDate
                 /\ current_date(now) <= c.date_of_birth
                 /\ c.date_of_birth <= current_date(now) + days})

(* The contacts endpoints.  The bearer is resolved first; then the path and *)
(* query parameters are validated (422); then the handler runs.             *)

ContactIds == 0..contact_seq + 1

ContactResponse(op, status, token, contact_id, result) ==
    [op |-> op, status |-> status, token |-> token, contact_id |-> contact_id,
     result |-> result]

\* GET /contacts/
ReadContacts(token, skip, limit, q) ==
    LET cur == get_current_user(token)
    IN /\ resp' = IF cur.status # 200
                  THEN ContactResponse("read_contacts", cur.status, token, 0, << >>)
                  ELSE ContactResponse("read_contacts", 200, token, 0,
                                       get_contacts(contacts, cur.user.id, skip, limit, q))
       /\ UNCHANGED <<clock, users, cache, issued, lastLogin, prevLogins, resetInfo,
                      contacts, contact_seq, inflight>>

\* GET /contacts/{contact_id}, contact_id: int = Path(gt=0)
read_contact(table, cur, contact_id) ==
    IF cur.status # 200 THEN [status |-> cur.status, result |-> << >>]
    ELSE IF ~(contact_id > 0) THEN [status |-> 422, result |-> << >>]
    ELSE IF get_contact(table, contact_id, cur.user.id) = NoContact
    THEN [status |-> 404, result |-> << >>]
    ELSE [status |-> 200, result |-> <<get_contact(table, contact_id, cur.user.id)>>]

ReadContact(token, contact_id) ==
    LET r == read_contact(contacts, get_current_user(token), contact_id)
    IN /\ resp' = ContactResponse("read_contact", r.status, token, contact_id, r.result)
       /\ UNCHANGED <<clock, users, cache, issued, lastLogin, prevLogins, resetInfo,
                      contacts, contact_seq, inflight>>

\* POST /contacts/
CreateContact(token, body) ==
    LET cur == get_current_user(token)
    IN /\ IF cur.status # 200
          THEN /\ resp' = ContactResponse("create_contact", cur.status, token, 0, << >>)
               /\ UNCHANGED <<contacts, contact_seq>>
          ELSE IF create_contact(contacts, contact_seq, body, cur.user.id) = contacts
          THEN /\ resp' = ContactResponse("create_contact", 500, token, 0, << >>)
               /\ UNCHANGED <<contacts, contact_seq>>
          ELSE /\ contacts' = create_contact(contacts, contact_seq, body, cur.user.id)
               /\ contact_seq' = contact_seq + 1
               /\ resp' = ContactResponse("create_contact", 201, token, contact_seq + 1,
                              <<get_contact(contacts', contact_seq + 1, cur.user.id)>>)
       /\ UNCHANGED <<clock, users, cache, issued, lastLogin, prevLogins, resetInfo,
                      inflight>>

\* PUT /contacts/{contact_id}
UpdateContact(token, contact_id, body) ==
    LET cur == get_current_user(token)
        r == update_contact(contacts, contact_id, body, cur.user.id)
    IN /\ IF cur.status # 200 \/ ~(contact_id > 0)
          THEN /\ resp' = [op |-> "update_contact",
                           status |-> IF cur.status # 200 THEN cur.status ELSE 422,
                           token |-> token, contact_id |-> contact_id,
                           result |-> << >>, body |-> body]
               /\ UNCHANGED contacts
          ELSE /\ contacts' = r.table
               /\ resp' = [op |-> "update_contact",
                           status |-> IF r.contact = NoContact THEN 404
                                      ELSE IF r.error THEN 500 ELSE 200,
                           token |-> token, contact_id |-> contact_id,
                           result |-> IF r.contact = NoContact \/ r.error THEN << >>
                                      ELSE <<r.contact>>,
                           body |-> body]
       /\ UNCHANGED <<clock, users, cache, issued, lastLogin, prevLogins, resetInfo,
                      contact_seq, inflight>>

\* DELETE /contacts/{contact_id}
DeleteContact(token, contact_id) ==
    LET cur == get_current_user(token)
        r == delete_contact(contacts, contact_id, cur.user.id)
    IN /\ IF cur.status # 200 \/ ~(contact_id > 0)
          THEN /\ resp' = ContactResponse("delete_contact",
                              IF cur.status # 200 THEN cur.status ELSE 422,
                              token, contact_id, << >>)
               /\ UNCHANGED contacts
          ELSE /\ contacts' = r.table
               /\ resp' = IF r.contact = NoContact
                          THEN ContactResponse("delete_contact", 404, token, contact_id,
                                               << >>)
                          ELSE ContactResponse("delete_contact", 200, token, contact_id,
                                               <<r.contact>>)
       /\ UNCHANGED <<clock, users, cache, issued, lastLogin, prevLogins, resetInfo,
                      contact_seq, inflight>>

\* GET /contacts/birthdays/ ; without the trailing slash the path matches the
\* route /contacts/{contact_id} declared before it, and "birthdays" is no integer
UpcomingBirthdays(token, days, slash) ==
    LET cur == get_current_user(token)
    IN /\ resp' = [op |-> "birthdays",
                   status |-> IF cur.status # 200 THEN cur.status
                              ELSE IF ~slash THEN 422 ELSE 200,
                   token |-> token, contact_id |-> 0,
                   result |-> IF cur.status = 200 /\ slash
                              THEN get_birthdays(contacts, days, cur.user.id, clock)
                              ELSE << >>,
                   days |-> days, slash |-> slash]
       /\ UNCHANGED <<clock, users, cache, issued, lastLogin, prevLogins, resetInfo,
                      contacts, contact_seq, inflight>>

\* two users are stored; the administrator has logged in, the other user holds an
\* access token and has no cache entry
StoredUsers ==
    Append(SeedUsers,
           [id |-> 2, username |-> "deadpool", email |-> "deadpool@example.com",
            hashed_password |-> get_password_hash("newpass1"), created_at |-> 0,
            avatar |-> <<"seed", "deadpool@example.com">>, refresh_token |-> NoToken,
            role |-> "user"])

InitContacts ==
    /\ clock = 0
    /\ users = login(StoredUsers, << >>, "admin", "adminpass", 0).users
    /\ cache = login(StoredUsers, << >>, "admin", "adminpass", 0).cache
    /\ issued = {login(StoredUsers, << >>, "admin", "adminpass", 0).access_token,
                 login(StoredUsers, << >>, "admin", "adminpass", 0).refresh_token,
                 create_access_token("deadpool", 0)}
    /\ resp = Idle
    /\ lastLogin = [u \in RegUsernames |->
                      IF u = "admin" THEN create_refresh_token("admin", 0) ELSE NoToken]
    /\ prevLogins = [u \in RegUsernames |-> {}]
    /\ resetInfo = [u \in RegUsernames |-> NoReset]
    /\ steps = 0
    /\ contacts = {}
    /\ contact_seq = 0
    /\ inflight = [p \in Procs |-> NoRequest]

NextContacts ==
    \/ Deliver
    \/ \E d \in Jumps : Tick(d)
    \/ \E t \in Bearers, k \in Skips, l \in Limits, q \in Queries :
          Request(ReadContacts(t, k, l, q))
    \/ \E t \in Bearers, i \in ContactIds : Request(ReadContact(t, i))
    \/ \E t \in Bearers, b \in Bodies : Request(CreateContact(t, b))
    \/ \E t \in Bearers, i \in ContactIds, b \in Bodies : Request(UpdateContact(t, i, b))
    \/ \E t \in Bearers, i \in ContactIds : Request(DeleteContact(t, i))
    \/ \E t \in Bearers, n \in Days, slash \in BOOLEAN :
          Request(UpcomingBirthdays(t, n, slash))

SpecContacts == InitContacts /\ [][NextContacts]_vars

----------------------------------------------------------------------------
(* Birthdays: the clock stands on day 1, and contacts are dated the day     *)
(* before, that day, and the last day of a 7-day window and the day after.  *)

BirthdayBodies ==
    {ContactModel(<<"a", "n", "n">>, d) : d \in {0, 1, 8, 9, NoDate}}

InitBirthdays ==
    /\ clock = SECONDS_PER_DAY
    /\ users = StoredUsers
    /\ cache = << >>
    /\ issued = {create_access_token(u, SECONDS_PER_DAY) : u \in Usernames}
    /\ resp = Idle
    /\ lastLogin = [u \in RegUsernames |-> NoToken]
    /\ prevLogins = [u \in RegUsernames |-> {}]
    /\ resetInfo = [u \in RegUsernames |-> NoReset]
    /\ steps = 0
    /\ contacts = {}
    /\ contact_seq = 0
    /\ inflight = [p \in Procs |-> NoRequest]

NextBirthdays ==
    \/ Deliver
    \/ \E t \in Bearers, b \in BirthdayBodies : Request(CreateContact(t, b))
    \/ \E t \in Bearers, n \in Days, slash \in BOOLEAN :
          Request(UpcomingBirthdays(t, n, slash))

SpecBirthdays == InitBirthdays /\ [][NextBirthdays]_vars

----------------------------------------------------------------------------
(* Every endpoint behind the bearer dependency.  The administrator has      *)
(* logged in (and is cached), deadpool holds an access token, and a third   *)
(* access token names a user the table does not hold.                       *)

InitBearer ==
    /\ clock = 0
    /\ users = login(StoredUsers, << >>, "admin", "adminpass", 0).users
    /\ cache = login(StoredUsers, << >>, "admin", "adminpass", 0).cache
    /\ issued = {login(StoredUsers, << >>, "admin", "adminpass", 0).access_token,
                 login(StoredUsers, << >>, "admin", "adminpass", 0).refresh_token,
                 create_access_token("deadpool", 0),
                 create_access_token("ironman", 0)}
    /\ resp = Idle
    /\ lastLogin = [u \in RegUsernames |->
                      IF u = "admin" THEN create_refresh_token("admin", 0) ELSE NoToken]
    /\ prevLogins = [u \in RegUsernames |-> {}]
    /\ resetInfo = [u \in RegUsernames |-> NoReset]
    /\ steps = 0
    /\ contacts = {}
    /\ contact_seq = 0
    /\ inflight = [p \in Procs |-> NoRequest]

NextBearer ==
    \/ Deliver
    \/ \E d \in Jumps : Tick(d)
    \/ \E t \in Presentable : Request(Logout(t))
    \/ \E t \in Presentable : Request(ReadUserMe(t))
    \/ \E t \in Presentable, c \in ContentTypes, f \in Faults :
          Request(UpdateAvatar(t, c, f))
    \/ \E t \in Presentable, i \in UserIds, r \in Roles :
          Request(UpdateUserRole(t, i, r))
    \/ \E t \in Presentable, k \in Skips, l \in Limits, q \in Queries :
          Request(ReadContacts(t, k, l, q))
    \/ \E t \in Presentable, i \in ContactIds : Request(ReadContact(t, i))
    \/ \E t \in Presentable, b \in Bodies : Request(CreateContact(t, b))
    \/ \E t \in Presentable, i \in ContactIds, b \in Bodies :
          Request(UpdateContact(t, i, b))
    \/ \E t \in Presentable, i \in ContactIds : Request(DeleteContact(t, i))
    \/ \E t \in Presentable, n \in Days, slash \in BOOLEAN :
          Request(UpcomingBirthdays(t, n, slash))

SpecBearer == InitBearer /\ [][NextBearer]_vars

----------------------------------------------------------------------------
(* A handler that stops between its commit and its cache deletion: the      *)
(* process dies, or the deletion raises.  The row is written, the entry is  *)
(* left, and no answer is given.                                            *)

Stopped(at, username) == [op |-> "stopped", status |-> 0, at |-> at, username |-> username]

ConfirmPasswordResetStops(token, password) ==
    LET r == confirm_password_reset(users, cache, token, password, clock)
        i == get_user_by_username(users, r.username)
    IN /\ r.status = 200
       /\ users' = r.users
       /\ resetInfo' = [resetInfo EXCEPT ![r.username] =
                          [done |-> TRUE, old |-> users[i].hashed_password[3],
                           new |-> password,
                           had_entry |-> CacheKey(r.username) \in DOMAIN cache,
                           stopped |-> TRUE, token |-> token]]
       /\ resp' = Stopped("reset-confirm", r.username)
       /\ UNCHANGED <<clock, cache, issued, lastLogin, prevLogins,
                      contacts, contact_seq, inflight>>

UpdateUserRoleStops(token, user_id, role) ==
    LET cur == get_current_admin(token)
        r == update_user_role(users, cache, cur, user_id, role)
    IN /\ r.status = 200
       /\ users' = r.users
       /\ resp' = Stopped("role", r.username)
       /\ UNCHANGED <<clock, cache, issued, lastLogin, prevLogins, resetInfo,
                      contacts, contact_seq, inflight>>

InitCrash ==
    /\ clock = 0
    /\ users = StoredUsers
    /\ cache = << >>
    /\ issued = {}
    /\ resp = Idle
    /\ lastLogin = [u \in RegUsernames |-> NoToken]
    /\ prevLogins = [u \in RegUsernames |-> {}]
    /\ resetInfo = [u \in RegUsernames |-> NoReset]
    /\ steps = 0
    /\ contacts = {}
    /\ contact_seq = 0
    /\ inflight = [p \in Procs |-> NoRequest]

NextCrash ==
    \/ Deliver
    \/ \E d \in Jumps : Tick(d)
    \/ \E u \in Usernames, w \in Passwords : Request(Login(u, w))
    \/ \E e \in Emails, x \in Salts : Request(RequestPasswordReset(e, x))
    \/ \E t \in Bearers, w \in Passwords : Request(ConfirmPasswordReset(t, w))
    \/ \E t \in Bearers, w \in Passwords : Request(ConfirmPasswordResetStops(t, w))
    \/ \E t \in Bearers, c \in ContentTypes, f \in Faults : Request(UpdateAvatar(t, c, f))
    \/ \E t \in Bearers, i \in UserIds, r \in Roles : Request(UpdateUserRole(t, i, r))
    \/ \E t \in Bearers, i \in UserIds, r \in Roles : Request(UpdateUserRoleStops(t, i, r))
    \/ \E t \in Bearers : Request(ReadUserMe(t))

SpecCrash == InitCrash /\ [][NextCrash]_vars

----------------------------------------------------------------------------
(* POST /auth/login served concurrently.  Its awaits are the lookup of the  *)
(* user, save_refresh_token (whose commit and refresh reload the row), and   *)
(* the cache write made from the row as it was reloaded.                    *)

LoginGetUser(p, username, password) ==
    LET i == get_user_by_username(users, username)
    IN /\ resp = Idle
       /\ inflight[p].pc = "idle"
       /\ inflight' = [inflight EXCEPT ![p] =
                         [pc |-> IF i = 0 \/ ~verify_password(password,
                                                              users[i].hashed_password)
                                 THEN "done" ELSE "save_refresh_token",
                          username |-> username, email |-> None, password |-> password,
                          status |-> IF i = 0 \/ ~verify_password(password,
                                                              users[i].hashed_password)
                                     THEN 401 ELSE 0]]
       /\ UNCHANGED <<clock, users, cache, issued, resp, lastLogin, prevLogins,
                      resetInfo, steps, contacts, contact_seq>>

LoginSaveRefreshToken(p) ==
    LET username == inflight[p].username
        refresh_token == create_refresh_token(username, clock)
        saved == save_refresh_token(users, username, refresh_token)
    IN /\ resp = Idle
       /\ inflight[p].pc = "save_refresh_token"
       /\ users' = saved
       /\ inflight' = [inflight EXCEPT ![p] =
                         [pc |-> "redis_set", username |-> username, email |-> None,
                          password |-> inflight[p].password, status |-> 0,
                          user |-> saved[get_user_by_username(saved, username)],
                          access_token |-> create_access_token(username, clock),
                          refresh_token |-> refresh_token]]
       /\ UNCHANGED <<clock, cache, issued, resp, lastLogin, prevLogins, resetInfo,
                      contacts, contact_seq>>

LoginRedisSet(p) ==
    LET r == inflight[p]
    IN /\ resp = Idle
       /\ r.pc = "redis_set"
       /\ cache' = redis_set(cache, CacheKey(r.username),
                             UserDict(r.user, r.refresh_token),
                             REDIS_USER_CACHE_EXPIRE, clock)
       /\ RecordLogin([status |-> 200, access_token |-> r.access_token,
                       refresh_token |-> r.refresh_token], r.username)
       /\ inflight' = [inflight EXCEPT ![p] =
                         [pc |-> "done", username |-> r.username, email |-> None,
                          password |-> r.password, status |-> 200]]
       /\ UNCHANGED <<clock, users, resp, resetInfo, contacts, contact_seq>>

\* the response has been sent; the worker takes the next request
LoginReturn(p) ==
    /\ resp = Idle
    /\ inflight[p].pc = "done"
    /\ inflight' = [inflight EXCEPT ![p] = NoRequest]
    /\ UNCHANGED <<clock, users, cache, issued, resp, lastLogin, prevLogins, resetInfo,
                   steps, contacts, contact_seq>>

NextRace ==
    \/ Deliver
    \/ \E d \in Jumps : Tick(d)
    \/ \E p \in Procs, w \in Passwords : LoginGetUser(p, "admin", w)
    \/ \E p \in Procs : Counted(LoginSaveRefreshToken(p))
    \/ \E p \in Procs : Counted(LoginRedisSet(p))
    \/ \E p \in Procs : LoginReturn(p)
    \/ \E e \in Emails, x \in Salts : Request(RequestPasswordReset(e, x))
    \/ \E t \in Bearers, w \in Passwords : Request(ConfirmPasswordReset(t, w))
    \/ \E t \in Bearers, c \in ContentTypes, f \in Faults : Request(UpdateAvatar(t, c, f))

SpecRace == Init /\ [][NextRace]_vars

----------------------------------------------------------------------------
(* Properties *)

StoredToken(username) ==
    LET i == get_user_by_username(users, username)
    IN IF i = 0 THEN NoToken ELSE users[i].refresh_token

\* what POST /auth/refresh-token would answer 200 to, now
Accepted(token) == verify_refresh_token(users, token, clock) # 0

\* C1: a refresh token issued by login is exchanged for a new access token only
\* while it equals the refresh_token stored for its user; while the stored value is
\* cleared (after logout, until a login stores one again) the exchange is answered 401.
C1_RefreshOnlyWhileStored ==
    (resp.op = "refresh-token" /\ resp.token \in issued
        /\ resp.token.claims.token_type = "refresh")
    => /\ resp.status \in {200, 401}
       /\ resp.status = 200 =>
            /\ StoredToken(resp.token.claims.sub) = resp.token
            /\ resp.access_token \in issued
            /\ resp.access_token = create_access_token(resp.token.claims.sub, clock)
       /\ StoredToken(resp.token.claims.sub) = NoToken => resp.status = 401

\* a refresh token that is in date and was the latest login's is refused after logout
C1_Witness ==
    /\ resp.op = "refresh-token"
    /\ resp.status = 401
    /\ resp.token \in issued
    /\ jwt_decode(resp.token, clock) = "ok"
    /\ resp.token.claims.token_type = "refresh"
    /\ lastLogin[resp.token.claims.sub] = resp.token
    /\ StoredToken(resp.token.claims.sub) = NoToken

\* C2 (as claimed): every refresh token returned by an earlier login of a user is
\* rejected by the refresh endpoint.
C2_EarlierLoginTokensRejected ==
    \A u \in Usernames : \A t \in prevLogins[u] : ~Accepted(t)

\* C2 (amended): at most one refresh token is accepted for a user, the one returned
\* by the user's most recent login; a token returned by an earlier login is rejected
\* unless it is that very token (two logins in the same second return the same token).
C2_OnlyLatestLoginTokenAccepted ==
    /\ \A t \in Presentable :
          Accepted(t) => /\ t.claims.sub \in Usernames
                         /\ t = lastLogin[t.claims.sub]
    /\ \A u \in Usernames : \A t \in prevLogins[u] \ {lastLogin[u]} : ~Accepted(t)
    /\ (resp.op = "refresh-token" /\ resp.status = 200)
          => resp.token = lastLogin[resp.token.claims.sub]

\* an in-date token of an earlier login is refused while the latest one is accepted
C2_Witness ==
    /\ resp.op = "refresh-token"
    /\ resp.status = 401
    /\ jwt_decode(resp.token, clock) = "ok"
    /\ resp.token.claims.sub \in Usernames
    /\ resp.token \in prevLogins[resp.token.claims.sub]
    /\ resp.token # lastLogin[resp.token.claims.sub]
    /\ Accepted(lastLogin[resp.token.claims.sub])

\* C3: registering with a username or an email of a stored user is answered 409 and
\* changes neither the users table nor the cache, and hands out no token.
C3_DuplicateRegistrationRejected ==
    [][(resp = Idle /\ resp'.op = "register"
          /\ (\/ get_user_by_email(users, resp'.email) # 0
              \/ get_user_by_username(users, resp'.username) # 0))
       => (/\ resp'.status = 409
           /\ users' = users
           /\ cache' = cache
           /\ issued' = issued)]_vars

\* a registration refused for its username alone (the email is free)
C3_Witness ==
    /\ resp.op = "register"
    /\ resp.status = 409
    /\ get_user_by_username(users, resp.username) # 0
    /\ get_user_by_email(users, resp.email) = 0

\* C4: in every reachable state, registrations overlapping one another and the
\* other requests included, no two stored users share a username and no two share
\* an email.
C4_UniqueUsernameAndEmail ==
    \A i \in RowIds(users) : \A j \in RowIds(users) :
        i # j => /\ users[i].username # users[j].username
                 /\ users[i].email # users[j].email

\* two registrations with one email and two usernames both passed the lookups; one
\* was stored and the other was stopped at the insert
C4_Witness ==
    \E p \in Procs : \E q \in Procs :
        /\ inflight[p].status = 500
        /\ inflight[q].status = 201
        /\ inflight[p].email = inflight[q].email
        /\ inflight[p].username # inflight[q].username
        /\ get_user_by_username(users, inflight[q].username) # 0
        /\ get_user_by_username(users, inflight[p].username) = 0

\* the stored user a bearer token names, 0 for none
Caller(token) ==
    IF token = NoToken THEN 0 ELSE get_user_by_username(users, token.claims.sub)

\* C5: a list read (any skip, limit and q), a single read and a birthdays read return
\* only stored contacts owned by the caller, and a single read of a contact owned by
\* another user is answered 404.
C5_ContactReadsIsolated ==
    resp.op \in {"read_contacts", "read_contact", "birthdays"}
    => /\ \A k \in 1..Len(resp.result) :
             /\ resp.result[k] \in contacts
             /\ resp.result[k].user_id = Caller(resp.token)
       /\ (/\ resp.op = "read_contact"
           /\ jwt_decode(resp.token, clock) = "ok"
           /\ Caller(resp.token) # 0
           /\ \E c \in contacts : c.id = resp.contact_id
                                   /\ c.user_id # Caller(resp.token))
          => resp.status = 404

\* a list read returns the caller's contacts while another user owns a contact that
\* matches the same search
C5_Witness ==
    /\ resp.op = "read_contacts"
    /\ resp.status = 200
    /\ Len(resp.result) > 0
    /\ \E c \in contacts : /\ c.user_id # Caller(resp.token)
                           /\ \E k \in 1..Len(resp.result) :
                                 c.first_name = resp.result[k].first_name

\* C6: an update or a delete by an authenticated user, for a contact id that is not
\* stored or is owned by another user, is answered 404 and leaves the contacts table
\* as it was.
C6_ForeignWriteRejected ==
    [][(/\ resp = Idle
        /\ resp'.op \in {"update_contact", "delete_contact"}
        /\ jwt_decode(resp'.token, clock) = "ok"
        /\ Caller(resp'.token) # 0
        /\ resp'.contact_id > 0
        /\ \A c \in contacts : c.id = resp'.contact_id
                                => c.user_id # Caller(resp'.token))
       => (/\ resp'.status = 404
           /\ contacts' = contacts
           /\ contact_seq' = contact_seq)]_vars

\* a delete of another user's contact is answered 404 and the contact is still stored
C6_Witness ==
    /\ resp.op = "delete_contact"
    /\ resp.status = 404
    /\ Caller(resp.token) # 0
    /\ \E c \in contacts : c.id = resp.contact_id /\ c.user_id # Caller(resp.token)

\* C7: once a password reset is confirmed for a user, a login of that user succeeds
\* with the new password and is answered 401 with the password held before the reset
\* when that differs, whatever the cache held.
C7_LoginAfterReset ==
    (resp.op = "login" /\ resetInfo[resp.username].done)
    => /\ resp.password = resetInfo[resp.username].new => resp.status = 200
       /\ (resp.password = resetInfo[resp.username].old
             /\ resetInfo[resp.username].old # resetInfo[resp.username].new)
          => resp.status = 401

\* the old password is refused after a reset made while the user was cached
C7_Witness ==
    /\ resp.op = "login"
    /\ resp.status = 401
    /\ resetInfo[resp.username].done
    /\ resetInfo[resp.username].had_entry
    /\ resp.password = resetInfo[resp.username].old
    /\ resetInfo[resp.username].old # resetInfo[resp.username].new

\* C8: a password-reset request is answered 202 with the same message whether or not
\* the email is stored, and changes neither the users table nor the cache.
C8_ResetRequestUniform ==
    [][(resp = Idle /\ resp'.op = "reset-request")
       => (/\ resp'.status = 202
           /\ resp'.message = ResetMessage
           /\ users' = users
           /\ cache' = cache)]_vars

\* a request for an unknown email is answered, after one for a known email was
C8_Witness ==
    /\ resp.op = "reset-request"
    /\ resp.status = 202
    /\ get_user_by_email(users, resp.email) = 0
    /\ \E t \in issued : t.claims.token_type = "password_reset"

RejectedResetToken(token, now) ==
    \/ token = NoToken
    \/ token.sig # "HS256"
    \/ token.claims.exp < now
    \/ token.claims.token_type # "password_reset"

\* C9: the confirm step answers 400 and changes no user row and no cache entry when
\* the token is not of type password_reset, has expired or is not validly signed.
C9_BadResetTokenRejected ==
    [][(resp = Idle /\ resp'.op = "reset-confirm"
          /\ RejectedResetToken(resp'.token, clock))
       => (/\ resp'.status = 400
           /\ users' = users
           /\ cache' = cache)]_vars

\* a genuine, in-date refresh token is refused by the confirm step
C9_Witness ==
    /\ resp.op = "reset-confirm"
    /\ resp.status = 400
    /\ jwt_decode(resp.token, clock) = "ok"
    /\ resp.token.claims.token_type = "refresh"

ValidBearersOf(username) ==
    {t \in issued : jwt_decode(t, clock) = "ok" /\ t.claims.sub = username}

\* C10: after a completed avatar upload or role change for a user, the user's cache
\* entry is absent and a request under any token the user holds resolves the user
\* from the database, with the new avatar or role.
C10_ChangeInvalidatesCache ==
    (resp.op \in {"avatar", "role"} /\ resp.status = 200)
    => /\ CacheKey(resp.username) \notin DOMAIN cache
       /\ \A t \in ValidBearersOf(resp.username) :
             /\ get_current_user(t).status = 200
             /\ ~get_current_user(t).cached
             /\ resp.op = "avatar" => get_current_user(t).user.avatar = resp.avatar
             /\ resp.op = "role" => get_current_user(t).user.role = resp.role

\* a role change for a user who was cached and holds a token issued before it
C10_Witness ==
    /\ resp.op = "role"
    /\ resp.status = 200
    /\ resp.had_entry
    /\ ValidBearersOf(resp.username) # {}

\* the role stored for a username, None when no such user is stored
StoredRole(username) ==
    LET i == get_user_by_username(users, username)
    IN IF i = 0 THEN None ELSE users[i].role

StoredAvatar(username) ==
    LET i == get_user_by_username(users, username)
    IN IF i = 0 THEN <<None, None>> ELSE users[i].avatar

\* a token the server signed, in date, naming a subject
ValidBearer(token) ==
    /\ token # NoToken
    /\ jwt_decode(token, clock) = "ok"
    /\ token.claims.sub # None

\* C11: an avatar upload by a user whose stored role is admin, with a valid token, an
\* allowed content type and a successful upload, is answered 200 and the returned URL
\* is stored as the avatar, whether the user is resolved from the database or from
\* the cache entry written by the login.
C11_AdminChangesAvatar ==
    (/\ resp.op = "avatar"
     /\ ValidBearer(resp.token)
     /\ StoredRole(resp.token.claims.sub) = "admin"
     /\ resp.content_type \in AllowedContentTypes
     /\ resp.fault = "none")
    => /\ resp.status = 200
       /\ StoredAvatar(resp.token.claims.sub) = resp.avatar

\* C12: an avatar upload or a role change by a stored user whose role is not admin is
\* answered 403 and changes nothing: the users table and the cache stay as they were
\* and nothing is uploaded.
C12_NonAdminRefused ==
    [][(/\ resp = Idle
        /\ resp'.op \in {"avatar", "role"}
        /\ ValidBearer(resp'.token)
        /\ StoredRole(resp'.token.claims.sub) \notin {"admin", None})
       => (/\ resp'.status = 403
           /\ users' = users
           /\ cache' = cache
           /\ resp'.op = "avatar" => ~resp'.uploaded)]_vars

\* a user with role user, resolved from the database, is refused an upload that would
\* otherwise have gone through
C12_Witness ==
    /\ resp.op = "avatar"
    /\ resp.status = 403
    /\ ~resp.cached
    /\ StoredRole(resp.username) = "user"
    /\ resp.content_type \in AllowedContentTypes
    /\ resp.fault = "none"

\* C13: a role change to r by a user whose stored role is admin: when the user id is
\* stored, that row's role becomes r, no other row changes and the answer is 200; when
\* it is not stored, the answer is 404 and neither the users table nor the cache
\* changes.
C13_AdminChangesRole ==
    [][(/\ resp = Idle
        /\ resp'.op = "role"
        /\ ValidBearer(resp'.token)
        /\ StoredRole(resp'.token.claims.sub) = "admin")
       => IF resp'.user_id \in RowIds(users)
          THEN /\ resp'.status = 200
               /\ users' = [users EXCEPT ![resp'.user_id].role = resp'.role]
          ELSE /\ resp'.status = 404
               /\ users' = users
               /\ cache' = cache]_vars

\* C14: an avatar upload by a user whose stored role is admin, with a content type
\* outside image/jpeg, image/png and image/gif, is answered 400, nothing is uploaded
\* and the users table and the cache stay as they were.
C14_BadContentTypeRejected ==
    [][(/\ resp = Idle
        /\ resp'.op = "avatar"
        /\ ValidBearer(resp'.token)
        /\ StoredRole(resp'.token.claims.sub) = "admin"
        /\ resp'.content_type \notin AllowedContentTypes)
       => (/\ resp'.status = 400
           /\ ~resp'.uploaded
           /\ users' = users
           /\ cache' = cache)]_vars

\* C15: GET /contacts/birthdays?days=N (the path as written, without the trailing
\* slash of the declared route) as user u returns exactly u's contacts whose
\* date_of_birth d has today <= d <= today + N.
C15_BirthdaysRead ==
    (resp.op = "birthdays" /\ ValidBearer(resp.token) /\ Caller(resp.token) # 0
       /\ ~resp.slash)
    => /\ resp.status = 200
       /\ {resp.result[k] : k \in 1..Len(resp.result)}
            = {c \in contacts :
                  /\ c.user_id = Caller(resp.token)
                  /\ c.date_of_birth # NoDate
                  /\ clock \div SECONDS_PER_DAY <= c.date_of_birth
                  /\ c.date_of_birth <= clock \div SECONDS_PER_DAY + resp.days}

\* On the declared route /contacts/birthdays/ the read is answered for every
\* authenticated caller, with exactly the caller's contacts dated within
\* today..today + N, both ends included.
C15_BirthdaysWindow ==
    resp.op = "birthdays"
    => /\ (ValidBearer(resp.token) /\ Caller(resp.token) # 0 /\ resp.slash)
             => resp.status = 200
       /\ resp.status = 200
             => {resp.result[k] : k \in 1..Len(resp.result)}
                  = {c \in contacts :
                        /\ c.user_id = Caller(resp.token)
                        /\ c.date_of_birth # NoDate
                        /\ clock \div SECONDS_PER_DAY <= c.date_of_birth
                        /\ c.date_of_birth <= clock \div SECONDS_PER_DAY + resp.days}

\* the caller owns contacts dated yesterday, today, today + N and today + N + 1, and
\* the read returns the second and the third only
C15_Witness ==
    /\ resp.op = "birthdays"
    /\ resp.status = 200
    /\ Len(resp.result) = 2
    /\ \E k \in 1..2 : resp.result[k].date_of_birth = clock \div SECONDS_PER_DAY
    /\ \E k \in 1..2 :
          resp.result[k].date_of_birth = clock \div SECONDS_PER_DAY + resp.days
    /\ \E c \in contacts : /\ c.user_id = Caller(resp.token)
                           /\ c.date_of_birth = clock \div SECONDS_PER_DAY - 1
    /\ \E c \in contacts :
          /\ c.user_id = Caller(resp.token)
          /\ c.date_of_birth = clock \div SECONDS_PER_DAY + resp.days + 1

\* C16: a bearer token that is correctly signed and unexpired but carries no
\* subject (a password-reset token) is answered 401 by current-user resolution.
C16_NoSubjectUnauthorized ==
    (/\ resp.op \in {"me", "logout"}
     /\ resp.token # NoToken
     /\ jwt_decode(resp.token, clock) = "ok"
     /\ resp.token.claims.sub = None)
    => resp.status = 401

\* no token, a bad signature, an expiry in the past, or a subject with neither a
\* cache entry nor a row
Unauthenticated(token) ==
    \/ token = NoToken
    \/ token.sig # "HS256"
    \/ token.claims.exp < clock
    \/ /\ token.claims.sub # None
       /\ CacheKey(token.claims.sub) \notin DOMAIN cache
       /\ \A i \in RowIds(users) : users[i].username # token.claims.sub

\* C17: a request to a bearer-protected endpoint with no token, a token with a bad
\* signature or a past expiry, or a valid token whose subject has no cache entry and
\* no stored user, is answered 401 and changes neither the database nor the cache.
C17_UnauthenticatedRejected ==
    [][(/\ resp = Idle
        /\ resp'.op \in {"logout", "me", "avatar", "role", "read_contacts",
                         "read_contact", "create_contact", "update_contact",
                         "delete_contact", "birthdays"}
        /\ Unauthenticated(resp'.token))
       => /\ resp'.status = 401
          /\ users' = users
          /\ cache' = cache
          /\ contacts' = contacts
          /\ contact_seq' = contact_seq]_vars

\* a write with a valid token of a subject that is neither cached nor stored was
\* refused while the table holds contacts
C17_Witness ==
    /\ resp.op = "delete_contact"
    /\ resp.status = 401
    /\ resp.token # NoToken
    /\ resp.token.sig = "HS256"
    /\ resp.token.claims.exp >= clock
    /\ resp.token.claims.sub = "ironman"
    /\ CacheKey("ironman") \notin DOMAIN cache
    /\ get_user_by_username(users, "ironman") = 0
    /\ \E c \in contacts : c.id = resp.contact_id

\* C18: after a logout by user u is answered 200, u's stored refresh_token is
\* empty and the cache holds no entry under "user:" + u's username, whether u was
\* resolved from the cache or from the database; the stored refresh token and the
\* cache entry of every other user are unchanged.
C18_LogoutClearsOnlyCaller ==
    [][(resp = Idle /\ resp'.op = "logout" /\ resp'.status = 200)
       => /\ Len(users') = Len(users)
          /\ \A i \in RowIds(users) :
                users'[i].refresh_token =
                    IF users[i].username = resp'.username THEN NoToken
                    ELSE users[i].refresh_token
          /\ \E i \in RowIds(users) : users[i].username = resp'.username
          /\ DOMAIN cache' = DOMAIN cache \ {CacheKey(resp'.username)}
          /\ \A k \in DOMAIN cache' : cache'[k] = cache[k]]_vars

\* a user resolved from the cache has logged out while another user keeps a stored
\* refresh token and a cache entry
C18_Witness ==
    /\ resp.op = "logout"
    /\ resp.status = 200
    /\ resp.cached
    /\ StoredToken(resp.username) = NoToken
    /\ CacheKey(resp.username) \notin DOMAIN cache
    /\ \E v \in Usernames \ {resp.username} :
          /\ StoredToken(v) # NoToken
          /\ CacheKey(v) \in DOMAIN cache

\* C19: POST /auth/refresh-token never rotates or stores anything: on success it
\* returns a new access token for the token's subject together with the refresh
\* token that was presented, on failure 401, and in both cases the users table and
\* the cache are unchanged, so the same token is accepted again while it stays stored.
C19_RefreshStoresNothing ==
    [][(resp = Idle /\ resp'.op = "refresh-token" /\ resp'.token # NoToken)
       => /\ resp'.status \in {200, 401}
          /\ users' = users
          /\ cache' = cache
          /\ resp'.status = 200
                => /\ resp'.refresh_token = resp'.token
                   /\ resp'.access_token.sig = "HS256"
                   /\ resp'.access_token.claims.sub = resp'.token.claims.sub
                   /\ resp'.access_token.claims.token_type = "access"
                   /\ resp'.access_token.claims.exp > clock
                   /\ verify_refresh_token(users', resp'.token, clock') # 0]_vars

\* the stored refresh token is exchanged later than its login: the access token is a
\* new one, the refresh token is the one presented and it is still the stored one
C19_Witness ==
    /\ resp.op = "refresh-token"
    /\ resp.status = 200
    /\ resp.token.claims.iat < clock
    /\ resp.access_token.claims.iat = clock
    /\ resp.refresh_token = resp.token
    /\ StoredToken(resp.token.claims.sub) = resp.token

\* C20: a login with an unknown username or a wrong password is answered 401 with
\* the same detail in both cases and changes nothing: the users table (so the stored
\* refresh token of the named user, which stays accepted) and the cache are as before.
C20_FailedLoginChangesNothing ==
    [][(/\ resp = Idle
        /\ resp'.op = "login"
        /\ \/ \A i \in RowIds(users) : users[i].username # resp'.username
           \/ \E i \in RowIds(users) :
                 /\ users[i].username = resp'.username
                 /\ users[i].hashed_password # get_password_hash(resp'.password))
       => /\ resp'.status = 401
          /\ resp'.detail = "Invalid username or password"
          /\ users' = users
          /\ cache' = cache
          /\ issued' = issued
          /\ \A t \in issued :
                verify_refresh_token(users', t, clock')
                   = verify_refresh_token(users, t, clock)]_vars

\* a wrong password for a user who is logged in: the stored refresh token is still
\* accepted and the cache entry is still there
C20_Witness ==
    /\ resp.op = "login"
    /\ resp.status = 401
    /\ get_user_by_username(users, resp.username) # 0
    /\ StoredToken(resp.username) # NoToken
    /\ Accepted(StoredToken(resp.username))
    /\ CacheKey(resp.username) \in DOMAIN cache

\* C21 as stated: when an avatar upload by an administrator is answered 500 because
\* a step after validation failed (upload, database write or cache deletion), the
\* stored avatar and the cache entry of the caller are as they were before.
C21_FailedUploadChangesNothing ==
    [][(/\ resp = Idle
        /\ resp'.op = "avatar"
        /\ resp'.status = 500
        /\ ValidBearer(resp'.token)
        /\ StoredRole(resp'.token.claims.sub) = "admin")
       => /\ users' = users
          /\ cache' = cache]_vars

\* C21, amended: such a 500 leaves the cache as it was and, when the upload or the
\* database write failed, the users table as it was; when the cache deletion failed
\* the new avatar url is already committed and stays stored for the caller.
C21_FailedUploadNotUndone ==
    [][(/\ resp = Idle
        /\ resp'.op = "avatar"
        /\ resp'.status = 500
        /\ ValidBearer(resp'.token)
        /\ StoredRole(resp'.token.claims.sub) = "admin")
       => /\ cache' = cache
          /\ resp'.fault \in {"upload", "commit", "cache"}
          /\ resp'.fault \in {"upload", "commit"} => users' = users
          /\ resp'.fault = "cache"
                => /\ Len(users') = Len(users)
                   /\ \A i \in RowIds(users) :
                         users'[i] =
                            IF users[i].username = resp'.username
                            THEN [users[i] EXCEPT !.avatar = resp'.avatar]
                            ELSE users[i]]_vars

\* the cache deletion failed: the answer is 500 and the new url is stored
C21_Witness ==
    /\ resp.op = "avatar"
    /\ resp.status = 500
    /\ resp.fault = "cache"
    /\ StoredRole(resp.username) = "admin"
    /\ StoredAvatar(resp.username) = resp.avatar

\* C22: whenever a cache entry exists for user u, the user record that current-user
\* resolution builds from it equals u's row in the users table on id, username,
\* email, hashed_password, avatar and refresh_token.
C22_CacheMirrorsRow ==
    \A u \in Usernames :
        CacheKey(u) \in DOMAIN cache
        => LET c == UserFromCache(cache[CacheKey(u)].value)
               i == get_user_by_username(users, u)
           IN /\ i # 0
              /\ c.id = users[i].id
              /\ c.username = users[i].username
              /\ c.email = users[i].email
              /\ c.hashed_password = users[i].hashed_password
              /\ c.avatar = users[i].avatar
              /\ c.refresh_token = users[i].refresh_token

\* a user who was cached when the password was reset is cached again, by a login
\* with the new password
C22_Witness ==
    \E u \in Usernames :
        /\ CacheKey(u) \in DOMAIN cache
        /\ resetInfo[u].done
        /\ resetInfo[u].had_entry
        /\ users[get_user_by_username(users, u)].hashed_password
              = get_password_hash(resetInfo[u].new)

\* C23: login (and the login that ends a registration) is the only request that
\* writes a cache entry.  Every other request leaves each entry it does not delete
\* exactly as it was and adds none; reading the current user, exchanging a refresh
\* token and requesting a reset leave the cache untouched; password-reset confirm,
\* avatar upload, role change and logout delete at most the entry of the user they
\* changed.
C23_OnlyLoginWritesCache ==
    [][(resp = Idle /\ resp' # Idle /\ resp'.op \notin {"login", "register"})
       => /\ DOMAIN cache' \subseteq DOMAIN cache
          /\ \A k \in DOMAIN cache' : cache'[k] = cache[k]
          /\ resp'.op \in {"me", "refresh-token", "reset-request"} => cache' = cache
          /\ resp'.op \in {"reset-confirm", "avatar", "role", "logout"}
                => DOMAIN cache \ DOMAIN cache' \subseteq {CacheKey(resp'.username)}]_vars

\* a password reset deleted the entry of its user while another user stays cached
C23_Witness ==
    /\ resp.op = "reset-confirm"
    /\ resp.status = 200
    /\ resetInfo[resp.username].had_entry
    /\ CacheKey(resp.username) \notin DOMAIN cache
    /\ \E v \in Usernames \ {resp.username} : CacheKey(v) \in DOMAIN cache

\* C24: of two overlapping registrations for the same username or the same email,
\* once both have ended, exactly one has created the user and the other has been
\* answered 409.
C24_RaceLoserGets409 ==
    \A p \in Procs : \A q \in Procs \ {p} :
        (/\ inflight[p].pc = "done"
         /\ inflight[q].pc = "done"
         /\ \/ inflight[p].username = inflight[q].username
            \/ inflight[p].email = inflight[q].email
         /\ inflight[p].status = 201)
        => inflight[q].status = 409

\* C25: when a password-reset confirm, an avatar upload or a role change stops
\* between its commit and its cache deletion, current-user resolution serves the
\* entry left behind only while its time to live runs, and that time ends no later
\* than REDIS_USER_CACHE_EXPIRE after the login that wrote it; once the entry has
\* expired, resolution reads the users table and returns the committed row.
C25_StalenessEndsAtExpiry ==
    \A u \in Usernames : \A t \in ValidBearersOf(u) :
        LET cur == get_current_user(t)
            i == get_user_by_username(users, u)
        IN /\ cur.cached => CacheKey(u) \in DOMAIN cache
           /\ CacheKey(u) \in DOMAIN cache
                => /\ clock < cache[CacheKey(u)].expires_at
                   /\ cache[CacheKey(u)].expires_at
                        <= cache[CacheKey(u)].value.refresh_token.claims.iat
                              + REDIS_USER_CACHE_EXPIRE
           /\ (i # 0 /\ CacheKey(u) \notin DOMAIN cache)
                => /\ cur.status = 200
                   /\ ~cur.cached
                   /\ cur.user = users[i]

\* a reset that stopped after its commit left the entry of a cached user; the entry
\* has expired and the user is read from the table, with the new password
C25_Witness ==
    /\ resp.op = "me"
    /\ ~resp.cached
    /\ resp.user.username \in Usernames
    /\ resetInfo[resp.user.username].stopped
    /\ resetInfo[resp.user.username].had_entry
    /\ resp.user.hashed_password = get_password_hash(resetInfo[resp.user.username].new)
    /\ clock >= REDIS_USER_CACHE_EXPIRE

\* C26: a password-reset token that the confirm endpoint has accepted, presented to
\* it again before its expiry, does not change the password a second time.
C26_ResetTokenSingleUse ==
    [][(/\ resp = Idle
        /\ resp'.op = "reset-confirm"
        /\ \E u \in Usernames : resetInfo[u].done /\ resetInfo[u].token = resp'.token
        /\ jwt_decode(resp'.token, clock) = "ok")
       => users' = users]_vars

\* C27: every stored contact has one owning user id, the id of the user who created
\* it; no create, update or delete by any user changes the owner of an existing
\* contact, and an update changes only the fields its body sets, on the contact
\* addressed, leaving every other contact as it was.
C27_OwnerFixedUpdateScoped ==
    [][(resp = Idle /\ resp' # Idle)
       => /\ \A c \in contacts : \A d \in contacts' :
                d.id = c.id => d.user_id = c.user_id
          /\ \A d \in contacts' : \A e \in contacts' : d.id = e.id => d = e
          /\ \A d \in contacts' :
                (\A c \in contacts : c.id # d.id)
                => /\ resp'.op = "create_contact"
                   /\ d.user_id # 0
                   /\ d.user_id = Caller(resp'.token)
          /\ resp'.op = "update_contact"
                => \A c \in contacts :
                      IF c.id = resp'.contact_id /\ resp'.status = 200
                      THEN [id |-> c.id, user_id |-> c.user_id,
                            first_name |-> resp'.body.first_name,
                            last_name |-> resp'.body.last_name,
                            phone |-> resp'.body.phone,
                            email |-> resp'.body.email,
                            date_of_birth |->
                                IF "date_of_birth" \in resp'.body.unset
                                THEN c.date_of_birth
                                ELSE resp'.body.date_of_birth] \in contacts'
                      ELSE c \in contacts']_vars

\* an update that leaves date_of_birth out has renamed the caller's contact and kept
\* its date, while the table also holds a contact of another user
C27_Witness ==
    /\ resp.op = "update_contact"
    /\ resp.status = 200
    /\ "date_of_birth" \in resp.body.unset
    /\ resp.result[1].first_name = resp.body.first_name
    /\ resp.result[1].date_of_birth # NoDate
    /\ resp.result[1].user_id = Caller(resp.token)
    /\ resp.result[1] \in contacts
    /\ \E c \in contacts : c.user_id # resp.result[1].user_id

\* C28: for every interleaving of a login of u with an avatar upload, a
\* password-reset confirm or a second login for u, once all the requests have
\* completed, a cache entry present for u agrees with u's row on avatar,
\* hashed_password and refresh_token.
C28_CacheAgreesAfterRace ==
    (resp = Idle /\ \A p \in Procs : inflight[p].pc \in {"idle", "done"})
    => \A u \in Usernames :
          CacheKey(u) \in DOMAIN cache
          => LET c == cache[CacheKey(u)].value
                 i == get_user_by_username(users, u)
             IN /\ i # 0
                /\ c.avatar = users[i].avatar
                /\ c.hashed_password = users[i].hashed_password
                /\ c.refresh_token = users[i].refresh_token

\* C29: a password-reset confirm that is answered 200 changes only the
\* hashed_password of the user named by the token's email and deletes only that
\* user's cache entry; every stored refresh_token is as it was, so each refresh token
\* that was exchangeable before the reset is exchangeable after it.  A confirm that
\* is refused changes nothing.
C29_ResetChangesOnlyPassword ==
    [][(resp = Idle /\ resp'.op = "reset-confirm")
       => IF resp'.status = 200
          THEN /\ Len(users') = Len(users)
               /\ \A i \in RowIds(users) :
                     users'[i] =
                        IF users[i].email = resp'.token.claims.email
                        THEN [users[i] EXCEPT
                                !.hashed_password = get_password_hash(resp'.password)]
                        ELSE users[i]
               /\ DOMAIN cache' = DOMAIN cache \ {CacheKey(resp'.username)}
               /\ \A k \in DOMAIN cache' : cache'[k] = cache[k]
               /\ \A t \in issued :
                     verify_refresh_token(users', t, clock')
                        = verify_refresh_token(users, t, clock)
          ELSE users' = users /\ cache' = cache]_vars

\* the password of a logged-in, cached user was changed by the reset, and the refresh
\* token stored by the login before it is still accepted
C29_Witness ==
    /\ resp.op = "reset-confirm"
    /\ resp.status = 200
    /\ resetInfo[resp.username].had_entry
    /\ resetInfo[resp.username].old # resetInfo[resp.username].new
    /\ StoredToken(resp.username) # NoToken
    /\ StoredToken(resp.username) = lastLogin[resp.username]
    /\ Accepted(StoredToken(resp.username))

\* correctly signed, unexpired, and naming a subject that is cached or stored
Authenticates(token) ==
    /\ token # NoToken
    /\ token.sig = "HS256"
    /\ token.claims.exp >= clock
    /\ token.claims.sub # None
    /\ \/ CacheKey(token.claims.sub) \in DOMAIN cache
       \/ \E i \in RowIds(users) : users[i].username = token.claims.sub

\* C30: current-user resolution accepts a bearer token exactly when it is correctly
\* signed, unexpired and its subject has a cache entry or a stored user, whatever its
\* token_type and whatever refresh_token is stored: a refresh token authenticates as
\* its subject, and an access token issued before a logout authenticates after it.
C30_BearerAcceptedIffSignedAndKnown ==
    /\ \A t \in Presentable : (get_current_user(t).status = 200) <=> Authenticates(t)
    /\ \A t \in Presentable :
          get_current_user(t).status = 200
          => get_current_user(t).user.username = t.claims.sub
    /\ resp.op = "logout" => ((resp.status = 200) <=> Authenticates(resp.token))

\* a logout made with the refresh token as bearer was accepted; the stored refresh
\* token is cleared and the access token of the login before it still authenticates
C30_Witness ==
    /\ resp.op = "logout"
    /\ resp.status = 200
    /\ resp.token.claims.token_type = "refresh"
    /\ StoredToken(resp.username) = NoToken
    /\ \E t \in issued :
          /\ t.claims.token_type = "access"
          /\ t.claims.sub = resp.username
          /\ t.claims.iat <= resp.token.claims.iat
          /\ get_current_user(t).status = 200

====
